---- MODULE Spec2Model ----
(***************************************************************************)
(* fluent-hash (src/lib.rs): a fluent facade over ring::digest.            *)
(*                                                                         *)
(* Hashing selects an algorithm, HashContext accumulates input, Hash holds *)
(* the digest and renders it as bytes, vector or hex string.               *)
(*                                                                         *)
(* Bytes are integers 0..255, a byte slice is a sequence of bytes, a str   *)
(* is a sequence of Unicode scalar values, and a hex string is a sequence  *)
(* of one-character strings.                                               *)
(***************************************************************************)
EXTENDS Integers, Sequences, FiniteSets, TLC

VARIABLES env, ctxs, fed, last, views

vars == <<env, ctxs, fed, last, views>>

----------------------------------------------------------------------------
(* Bounds of the model *)

\* longest input of a one-shot call: a byte slice, a vector, the encoding of
\* a string or the contents of a file
MaxLen == 3
\* most bytes accumulated by one context
MaxInputLen == 2

\* The bytes inputs are built from: LF, CR, 'A' and the two bytes of U+00E9
\* (0xC3 0xA9), neither of which is UTF-8 on its own.
LF == 10
CR == 13
Bytes == {LF, CR, 65, 195, 169}
\* The bytes chunks fed to contexts are built from.
ChunkBytes == {65, LF}

RECURSIVE SeqsUpTo(_, _)
SeqsUpTo(S, n) ==
    IF n = 0 THEN {<<>>}
    ELSE LET shorter == SeqsUpTo(S, n - 1)
         IN  shorter \cup {Append(s, b) : s \in {t \in shorter : Len(t) = n - 1}, b \in S}

Data == SeqsUpTo(Bytes, MaxLen)
Chunks == SeqsUpTo(ChunkBytes, MaxInputLen)
Paths == {"testfile.txt", "other.txt"}
CtxIds == {"c1", "c2"}

----------------------------------------------------------------------------
(* Result<T, E> *)

Ok(v) == [ok |-> TRUE, val |-> v]
Err(e) == [ok |-> FALSE, err |-> e]

----------------------------------------------------------------------------
(* ring::digest, the primitive the library delegates to.  The compression  *)
(* functions themselves are outside the repository; a digest value is      *)
(* modelled as a deterministic function of (algorithm, message) with       *)
(* output_len bytes that is collision-free on messages shorter than        *)
(* output_len - 2 bytes and differs between algorithms.                    *)

SHA1_FOR_LEGACY_USE_ONLY == [id |-> "SHA1", tag |-> 17, output_len |-> 20]
SHA256 == [id |-> "SHA256", tag |-> 34, output_len |-> 32]
SHA384 == [id |-> "SHA384", tag |-> 51, output_len |-> 48]
SHA512 == [id |-> "SHA512", tag |-> 68, output_len |-> 64]
SHA512_256 == [id |-> "SHA512_256", tag |-> 85, output_len |-> 32]

DigestValue(algorithm, msg) ==
    [i \in 1..algorithm.output_len |->
        IF i = 1 THEN algorithm.tag
        ELSE IF i = 2 THEN Len(msg) % 256
        ELSE IF i - 2 <= Len(msg) THEN msg[i - 2]
        ELSE (algorithm.tag * 31 + i * 7) % 256]

\* ring::digest::Context::new
r_Context_new(algorithm) == [algorithm |-> algorithm, pending |-> <<>>]

\* ring::digest::Context::update
r_Context_update(c, data) == [c EXCEPT !.pending = @ \o data]

\* ring::digest::Context::finish
r_Context_finish(c) ==
    [algorithm |-> c.algorithm, value |-> DigestValue(c.algorithm, c.pending)]

\* ring::digest::digest, the one-shot reference the tests compare against
r_digest(algorithm, data) ==
    r_Context_finish(r_Context_update(r_Context_new(algorithm), data))

\* impl AsRef<[u8]> for ring::digest::Digest
r_Digest_as_ref(d) == d.value

----------------------------------------------------------------------------
(* UTF-8: String::from_utf8 (validation and decoding) and str::as_bytes.   *)

IsCont(b) == b \in 128..191

\* Width of the sequence a lead byte starts; 0 for a byte that starts none.
Utf8Width(b) ==
    IF b < 128 THEN 1
    ELSE IF b \in 194..223 THEN 2
    ELSE IF b \in 224..239 THEN 3
    ELSE IF b \in 240..244 THEN 4
    ELSE 0

\* The range allowed for the second byte after lead byte b.
SecondOk(b, s) ==
    IF b = 224 THEN s \in 160..191
    ELSE IF b = 237 THEN s \in 128..159
    ELSE IF b = 240 THEN s \in 144..191
    ELSE IF b = 244 THEN s \in 128..143
    ELSE IsCont(s)

RECURSIVE DecodeFrom(_, _, _)
DecodeFrom(b, i, acc) ==
    IF i > Len(b) THEN Ok(acc)
    ELSE LET w == Utf8Width(b[i]) IN
         IF w = 0 \/ i + w - 1 > Len(b) THEN Err("InvalidData")
         ELSE IF w = 1 THEN DecodeFrom(b, i + 1, Append(acc, b[i]))
         ELSE IF ~SecondOk(b[i], b[i + 1]) THEN Err("InvalidData")
         ELSE IF w = 2 THEN
             DecodeFrom(b, i + 2, Append(acc, (b[i] % 32) * 64 + (b[i + 1] % 64)))
         ELSE IF ~IsCont(b[i + 2]) THEN Err("InvalidData")
         ELSE IF w = 3 THEN
             DecodeFrom(b, i + 3,
                 Append(acc, (b[i] % 16) * 4096 + (b[i + 1] % 64) * 64 + (b[i + 2] % 64)))
         ELSE IF ~IsCont(b[i + 3]) THEN Err("InvalidData")
         ELSE DecodeFrom(b, i + 4,
                 Append(acc, (b[i] % 8) * 262144 + (b[i + 1] % 64) * 4096
                             + (b[i + 2] % 64) * 64 + (b[i + 3] % 64)))

\* String::from_utf8: Ok(the string) or Err when the bytes are no UTF-8.
from_utf8(b) == DecodeFrom(b, 1, <<>>)

\* char::encode_utf8
encode_utf8(c) ==
    IF c < 128 THEN <<c>>
    ELSE IF c < 2048 THEN <<192 + (c \div 64), 128 + (c % 64)>>
    ELSE IF c < 65536 THEN
        <<224 + (c \div 4096), 128 + ((c \div 64) % 64), 128 + (c % 64)>>
    ELSE <<240 + (c \div 262144), 128 + ((c \div 4096) % 64),
           128 + ((c \div 64) % 64), 128 + (c % 64)>>

\* str::as_bytes / <str as AsRef<[u8]>>::as_ref: the UTF-8 encoding of s.
RECURSIVE str_as_bytes(_)
str_as_bytes(s) ==
    IF s = <<>> THEN <<>> ELSE encode_utf8(Head(s)) \o str_as_bytes(Tail(s))

----------------------------------------------------------------------------
(* Vec<u8>: a buffer of capacity Len(buf) whose first len bytes are the    *)
(* contents; the spare capacity holds whatever was there.                  *)

\* <Vec<u8> as AsRef<[u8]>>::as_ref
Vec_as_ref(v) == SubSeq(v.buf, 1, v.len)

\* <[u8]>::to_vec: an exact-capacity copy of the slice
slice_to_vec(s) == [buf |-> s, len |-> Len(s)]

\* A vector holding the bytes s, with spare capacity
vec_with_capacity(s, spare) == [buf |-> s \o spare, len |-> Len(s)]

----------------------------------------------------------------------------
(* hex::encode *)

HEX_CHARS_LOWER ==
    <<"0", "1", "2", "3", "4", "5", "6", "7", "8", "9", "a", "b", "c", "d", "e", "f">>

\* hex::encode with the two digits of each byte in the wrong order
hex_encode_low_digit_first(bytes) ==
    [i \in 1..(2 * Len(bytes)) |->
        IF i % 2 = 1 THEN HEX_CHARS_LOWER[(bytes[(i + 1) \div 2] % 16) + 1]
        ELSE HEX_CHARS_LOWER[(bytes[i \div 2] \div 16) + 1]]

hex_encode(bytes) ==
    [i \in 1..(2 * Len(bytes)) |->
        IF i % 2 = 1 THEN HEX_CHARS_LOWER[(bytes[(i + 1) \div 2] \div 16) + 1]
        ELSE HEX_CHARS_LOWER[(bytes[i \div 2] % 16) + 1]]

----------------------------------------------------------------------------
(* The file system as hash_file meets it.  A path names nothing, a file    *)
(* that may not be opened, a directory (which opens, and fails on the      *)
(* first read) or a regular file with its contents.                        *)

FileStates ==
    {[kind |-> k, content |-> <<>>] : k \in {"absent", "denied", "dir"}}
    \cup {[kind |-> "file", content |-> c] : c \in Data}

\* std::fs::File::open
File_open(f) ==
    IF f.kind = "absent" THEN Err("NotFound")
    ELSE IF f.kind = "denied" THEN Err("PermissionDenied")
    ELSE Ok(f)

\* BufRead::read_until(b'\n'): the length of the prefix up to and including
\* the first line feed, or all of the remaining bytes when there is none.
RECURSIVE read_until_len(_, _)
read_until_len(content, i) ==
    IF i > Len(content) THEN Len(content)
    ELSE IF content[i] = LF THEN i
    ELSE read_until_len(content, i + 1)

\* Lines::next dropping the "\n" alone
strip_newline_lf_only(s) ==
    IF s # <<>> /\ s[Len(s)] = LF THEN SubSeq(s, 1, Len(s) - 1) ELSE s

\* Lines::next dropping a trailing "\r" also where no "\n" follows it
strip_newline_any_cr(s) ==
    LET t == IF s # <<>> /\ s[Len(s)] = LF THEN SubSeq(s, 1, Len(s) - 1) ELSE s
    IN  IF t # <<>> /\ t[Len(t)] = CR THEN SubSeq(t, 1, Len(t) - 1) ELSE t

\* Lines::next: drop a trailing "\n" and then a "\r" before it.
strip_newline(s) ==
    IF s # <<>> /\ s[Len(s)] = LF
    THEN LET t == SubSeq(s, 1, Len(s) - 1)
         IN  IF t # <<>> /\ t[Len(t)] = CR THEN SubSeq(t, 1, Len(t) - 1) ELSE t
    ELSE s

\* BufRead::lines over a regular file: one Result<String> per line.
RECURSIVE lines_of(_)
lines_of(content) ==
    IF content = <<>> THEN <<>>
    ELSE LET n == read_until_len(content, 1)
             dec == from_utf8(SubSeq(content, 1, n))
             item == IF dec.ok THEN Ok(strip_newline(dec.val)) ELSE Err("InvalidData")
         IN  <<item>> \o lines_of(SubSeq(content, n + 1, Len(content)))

\* BufReader::new(file).lines()
lines(file) ==
    IF file.kind = "dir" THEN <<Err("IsADirectory")>> ELSE lines_of(file.content)

----------------------------------------------------------------------------
(* How a call ends: it returns a value or it panics with a message.        *)

Return(v) == [panic |-> FALSE, val |-> v, msg |-> <<>>]
Panic(m) == [panic |-> TRUE, val |-> <<>>, msg |-> m]

----------------------------------------------------------------------------
(* The library: Hashing, HashContext, Hash                                 *)

Hashing == {"Sha1", "Sha256", "Sha384", "Sha512", "Sha512_256"}

\* struct HashContext(r_digest::Context)
HashContext(c) == [inner |-> c]

\* struct Hash(r_digest::Digest)
Hash(d) == [inner |-> d]

\* new_context with Sha512_256 bound to SHA-256, the other 256-bit digest
new_context_sha512_256_as_sha256(self) ==
    CASE self = "Sha1" -> HashContext(r_Context_new(SHA1_FOR_LEGACY_USE_ONLY))
      [] self = "Sha256" -> HashContext(r_Context_new(SHA256))
      [] self = "Sha384" -> HashContext(r_Context_new(SHA384))
      [] self = "Sha512" -> HashContext(r_Context_new(SHA512))
      [] self = "Sha512_256" -> HashContext(r_Context_new(SHA256))

\* new_context with Sha384 bound to SHA-512, the function it truncates
new_context_sha384_as_sha512(self) ==
    CASE self = "Sha1" -> HashContext(r_Context_new(SHA1_FOR_LEGACY_USE_ONLY))
      [] self = "Sha256" -> HashContext(r_Context_new(SHA256))
      [] self = "Sha384" -> HashContext(r_Context_new(SHA512))
      [] self = "Sha512" -> HashContext(r_Context_new(SHA512))
      [] self = "Sha512_256" -> HashContext(r_Context_new(SHA512_256))

\* Hashing::new_context
new_context(self) ==
    CASE self = "Sha1" -> HashContext(r_Context_new(SHA1_FOR_LEGACY_USE_ONLY))
      [] self = "Sha256" -> HashContext(r_Context_new(SHA256))
      [] self = "Sha384" -> HashContext(r_Context_new(SHA384))
      [] self = "Sha512" -> HashContext(r_Context_new(SHA512))
      [] self = "Sha512_256" -> HashContext(r_Context_new(SHA512_256))

\* update that puts the new data in front of what was fed before
update_prepending(self, data) ==
    HashContext([self.inner EXCEPT !.pending = data \o @])

\* HashContext::update(&mut self, data): the context afterwards
update(self, data) == HashContext(r_Context_update(self.inner, data))

\* HashContext::finish(self): the digest returned
finish(self) == Hash(r_Context_finish(self.inner))

\* HashContext::finish takes self by value: what the caller's binding holds
\* afterwards
Moved == [st |-> "moved", ctx |-> <<>>]
\* finish(&self): the binding stays usable
finish_borrowing_self(slot) == slot
finish_self(slot) == Moved

\* a clone that starts empty instead of copying the running state
clone_without_state(self) == HashContext(r_Context_new(self.inner.algorithm))

\* #[derive(Clone)] for HashContext
clone(self) == HashContext(self.inner)

\* Hashing::hash
hash(self, data) ==
    LET ctx0 == new_context(self)
        ctx1 == update(ctx0, data)
    IN  finish(ctx1)

\* hash_vec hashing the whole buffer of the vector, spare capacity included
hash_vec_whole_buffer(self, data) == hash(self, data.buf)

\* Hashing::hash_vec
hash_vec(self, data) == hash(self, Vec_as_ref(data))

\* Hashing::hash_str
hash_str(self, data) == hash(self, str_as_bytes(data))

\* The loop of hash_file passing over the lines that fail to read
RECURSIVE hash_file_loop_skipping(_, _, _)
hash_file_loop_skipping(ctx, ls, calls) ==
    IF ls = <<>> THEN [outcome |-> Return(finish(ctx)), calls |-> calls]
    ELSE IF ~Head(ls).ok THEN hash_file_loop_skipping(ctx, Tail(ls), calls)
    ELSE LET bytes == str_as_bytes(Head(ls).val)
         IN  hash_file_loop_skipping(update(ctx, bytes), Tail(ls), Append(calls, bytes))

\* The loop of Hashing::hash_file: ls are the lines still to read, calls the
\* arguments update has been called with so far.
RECURSIVE hash_file_loop(_, _, _)
hash_file_loop(ctx, ls, calls) ==
    IF ls = <<>> THEN [outcome |-> Return(finish(ctx)), calls |-> calls]
    ELSE IF ~Head(ls).ok
    THEN [outcome |-> Panic(<<"called Result::unwrap() on an Err value", Head(ls).err>>),
          calls |-> calls]
    ELSE LET bytes == str_as_bytes(Head(ls).val)
         IN  hash_file_loop(update(ctx, bytes), Tail(ls), Append(calls, bytes))

\* Hashing::hash_file, with the state of the file at path
hash_file(self, path, fstate) ==
    LET file == File_open(fstate) IN
    IF ~file.ok
    THEN [outcome |-> Panic(<<"Failed to open file with path: ", path, file.err>>),
          calls |-> <<>>]
    ELSE hash_file_loop(new_context(self), lines(file.val), <<>>)

\* Hash::as_bytes
as_bytes(self) == r_Digest_as_ref(self.inner)

\* Hash::to_vec
to_vec(self) == slice_to_vec(as_bytes(self))

\* Hash::to_hex
to_hex(self) == hex_encode(as_bytes(self))

----------------------------------------------------------------------------
(* State.                                                                  *)
(*   env      what the caller works with: a Hashing variant, a byte        *)
(*            content, a path and the state of the file at that path       *)
(*   ctxs[i]  the caller's binding i: not yet created, a live HashContext, *)
(*            or moved out of by finish                                    *)
(*   fed[i]   what the caller has done with context i: the variant it was  *)
(*            created from, the bytes handed to update so far in call      *)
(*            order (with those inherited by clone), how often update was  *)
(*            called (0, 1, or 2 for more than once), whether a chunk      *)
(*            boundary fell inside these bytes, how often finish was       *)
(*            applied and how many calls were applied after a finish       *)
(*   last     the last call: its name, arguments and how it ended          *)
(*   views    the views taken so far of the digest the last call returned  *)

Some(v) == [some |-> TRUE, val |-> v]
None == [some |-> FALSE, val |-> <<>>]

NoCtx == [st |-> "none", ctx |-> <<>>]
Live(c) == [st |-> "live", ctx |-> c]
NotFed ==
    [alg |-> "-", bytes |-> <<>>, updates |-> 0, split |-> FALSE, finishes |-> 0,
     late |-> 0]
NoViews == [as_bytes |-> None, to_vec |-> None, to_hex |-> None]

Call(op, id, input, outcome, calls) ==
    [op |-> op, id |-> id, input |-> input, outcome |-> outcome, calls |-> calls]

Env(alg, bytes, path, file) ==
    [alg |-> alg, bytes |-> bytes, path |-> path, file |-> file]

InitRest ==
    /\ ctxs = [i \in CtxIds |-> NoCtx]
    /\ fed = [i \in CtxIds |-> NotFed]
    /\ last = Call("init", "-", <<>>, Return(<<>>), <<>>)
    /\ views = NoViews

\* 1 once a call is applied to a context that finish was applied to before
Late(i) == IF fed[i].finishes > 0 THEN 1 ELSE 0

\* let mut ctx = alg.new_context();
NewContext(i) ==
    /\ ctxs[i].st = "none"
    /\ ctxs' = [ctxs EXCEPT ![i] = Live(new_context(env.alg))]
    /\ fed' = [fed EXCEPT ![i] = [NotFed EXCEPT !.alg = env.alg]]
    /\ last' = Call("new_context", i, env.alg, Return(<<>>), <<>>)
    /\ UNCHANGED <<env, views>>

\* ctx.update(data);
Update(i, data) ==
    /\ ctxs[i].st = "live"
    /\ ctxs' = [ctxs EXCEPT ![i] = Live(update(ctxs[i].ctx, data))]
    /\ fed' = [fed EXCEPT ![i].bytes = @ \o data,
                          ![i].updates = IF @ < 2 THEN @ + 1 ELSE @,
                          ![i].split = @ \/ (fed[i].bytes # <<>> /\ data # <<>>),
                          ![i].late = @ + Late(i)]
    /\ last' = Call("update", i, data, Return(<<>>), <<>>)
    /\ UNCHANGED <<env, views>>

\* let ctx2 = ctx.clone();
Clone(i, j) ==
    /\ ctxs[i].st = "live"
    /\ ctxs[j].st = "none"
    /\ ctxs' = [ctxs EXCEPT ![j] = Live(clone(ctxs[i].ctx))]
    /\ fed' = [fed EXCEPT ![j] = [fed[i] EXCEPT !.finishes = 0, !.late = 0],
                          ![i].late = @ + Late(i)]
    /\ last' = Call("clone", j, i, Return(<<>>), <<>>)
    /\ UNCHANGED <<env, views>>

\* let digest = ctx.finish();
Finish(i) ==
    /\ ctxs[i].st = "live"
    /\ ctxs' = [ctxs EXCEPT ![i] = finish_self(ctxs[i])]
    /\ fed' = [fed EXCEPT ![i].bytes = <<>>,
                          ![i].updates = 0,
                          ![i].split = FALSE,
                          ![i].finishes = @ + 1,
                          ![i].late = @ + Late(i)]
    /\ last' = Call("finish", i, [alg |-> fed[i].alg, bytes |-> fed[i].bytes],
                    Return(finish(ctxs[i].ctx)),
                    [updates |-> fed[i].updates, split |-> fed[i].split])
    /\ UNCHANGED <<env, views>>

\* alg.hash(bytes)
HashBytes ==
    /\ last' = Call("hash", "-", env.bytes, Return(hash(env.alg, env.bytes)), <<>>)
    /\ views' = NoViews
    /\ UNCHANGED <<env, ctxs, fed>>

\* alg.hash_vec(v), v a vector holding bytes
HashVec(spare) ==
    /\ LET v == vec_with_capacity(env.bytes, spare)
       IN  last' = Call("hash_vec", "-", v, Return(hash_vec(env.alg, v)), <<>>)
    /\ views' = NoViews
    /\ UNCHANGED <<env, ctxs, fed>>

\* alg.hash_str(&String::from_utf8(bytes).unwrap())
HashStr ==
    /\ from_utf8(env.bytes).ok
    /\ LET s == from_utf8(env.bytes).val
       IN  last' = Call("hash_str", "-", s, Return(hash_str(env.alg, s)), <<>>)
    /\ views' = NoViews
    /\ UNCHANGED <<env, ctxs, fed>>

\* alg.hash_file(path)
HashFile ==
    /\ LET r == hash_file(env.alg, env.path, env.file)
       IN  last' = Call("hash_file", "-", env.path, r.outcome, r.calls)
    /\ views' = NoViews
    /\ UNCHANGED <<env, ctxs, fed>>

\* The last call returned a digest.
HasDigest ==
    /\ last.op \in {"finish", "hash", "hash_vec", "hash_str", "hash_file"}
    /\ ~last.outcome.panic

\* digest.as_bytes()
AsBytes ==
    /\ HasDigest
    /\ views' = [views EXCEPT !.as_bytes = Some(as_bytes(last.outcome.val))]
    /\ UNCHANGED <<env, ctxs, fed, last>>

\* digest.to_vec()
ToVec ==
    /\ HasDigest
    /\ views' = [views EXCEPT !.to_vec = Some(to_vec(last.outcome.val))]
    /\ UNCHANGED <<env, ctxs, fed, last>>

\* digest.to_hex()
ToHex ==
    /\ HasDigest
    /\ views' = [views EXCEPT !.to_hex = Some(to_hex(last.outcome.val))]
    /\ UNCHANGED <<env, ctxs, fed, last>>

----------------------------------------------------------------------------
(* One-shot hashing of a content, as bytes, vector, string and file, and   *)
(* the views of the digest.  testfile.txt is a regular file holding the    *)
(* content (the tests' create_test_file); any other path names no file, a  *)
(* file that may not be opened, or a directory.                            *)

InitHash ==
    /\ env \in {Env(alg, bytes, "testfile.txt", [kind |-> "file", content |-> bytes]) :
                    alg \in Hashing, bytes \in Data}
            \cup {Env(alg, <<>>, path, [kind |-> k, content |-> <<>>]) :
                    alg \in Hashing, path \in Paths \ {"testfile.txt"},
                    k \in {"absent", "denied", "dir"}}
    /\ InitRest

NextHash ==
    \/ HashBytes
    \/ \E spare \in {<<>>, <<170>>} : HashVec(spare)
    \/ HashStr
    \/ HashFile
    \/ AsBytes
    \/ ToVec
    \/ ToHex

SpecHash == InitHash /\ [][NextHash]_vars

----------------------------------------------------------------------------
(* Contexts of one variant fed chunk by chunk, cloned and finished, with *)
(* one-shot calls in between.                                              *)

InitCtx ==
    /\ env \in {Env(alg, bytes, "testfile.txt", [kind |-> "file", content |-> bytes]) :
                    alg \in Hashing, bytes \in {<<>>, <<65, LF>>}}
    /\ InitRest

NextCtx ==
    \/ \E i \in CtxIds : NewContext(i)
    \/ \E i \in CtxIds, data \in Chunks :
          Len(fed[i].bytes) + Len(data) <= MaxInputLen /\ Update(i, data)
    \/ \E i, j \in CtxIds : Clone(i, j)
    \/ \E i \in CtxIds : Finish(i)
    \/ HashBytes
    \/ HashVec(<<>>)
    \/ HashStr
    \/ HashFile

SpecCtx == InitCtx /\ [][NextCtx]_vars

----------------------------------------------------------------------------
(* The tests' sha256_context beside hash: one context, updated once with   *)
(* the whole content and finished.                                         *)

NextOnce ==
    \/ NewContext("c1")
    \/ fed["c1"].updates = 0 /\ Update("c1", env.bytes)
    \/ Finish("c1")
    \/ HashBytes

SpecOnce == InitHash /\ [][NextOnce]_vars

----------------------------------------------------------------------------
(* Properties                                                              *)

\* The primitive each variant is meant to be bound to.
ReferencePrimitive(variant) ==
    CASE variant = "Sha1" -> SHA1_FOR_LEGACY_USE_ONLY
      [] variant = "Sha256" -> SHA256
      [] variant = "Sha384" -> SHA384
      [] variant = "Sha512" -> SHA512
      [] variant = "Sha512_256" -> SHA512_256

\* C1: for each of the five variants and every input, the digest returned by
\* hash, and by new_context followed by at most one update and finish, is the
\* digest ring's one-shot digest function of that variant's own primitive
\* returns for the same input.
C1_DigestIsReferenceDigest ==
    /\ last.op = "hash" =>
          /\ ~last.outcome.panic
          /\ last.outcome.val.inner = r_digest(ReferencePrimitive(env.alg), last.input)
          /\ as_bytes(last.outcome.val)
                = r_Digest_as_ref(r_digest(ReferencePrimitive(env.alg), env.bytes))
    /\ last.op = "finish" =>
          /\ last.outcome.val.inner
                = r_digest(ReferencePrimitive(last.input.alg), last.input.bytes)
          /\ as_bytes(last.outcome.val)
                = r_Digest_as_ref(r_digest(ReferencePrimitive(last.input.alg),
                                           last.input.bytes))

\* hash has returned for Sha512_256 and a three-byte input after a context of
\* the same variant was updated once with that input and finished.
C1_Witness ==
    /\ last.op = "hash"
    /\ env.alg = "Sha512_256"
    /\ Len(env.bytes) = 3
    /\ ctxs["c1"].st = "moved"
    /\ fed["c1"].finishes = 1

\* C2: after update(c1), ..., update(cn) on a fresh context, finish returns
\* hash(c1 \o ... \o cn) of the same variant, wherever the chunk boundaries
\* fall; at every moment a live context would finish to the hash of the bytes
\* fed to it so far.
C2_IncrementalEquivalence ==
    /\ last.op = "finish" =>
          last.outcome = Return(hash(last.input.alg, last.input.bytes))
    /\ \A i \in CtxIds :
          ctxs[i].st = "live" => finish(ctxs[i].ctx) = hash(fed[i].alg, fed[i].bytes)

\* finish has returned for a context fed two different bytes by more than one
\* update, with a chunk boundary between them.
C2_Witness ==
    /\ last.op = "finish"
    /\ last.calls.split
    /\ last.calls.updates = 2
    /\ last.input.bytes = <<65, LF>>

\* The digest length the claim gives for each variant.
DigestLen(variant) ==
    CASE variant = "Sha1" -> 20
      [] variant = "Sha256" -> 32
      [] variant = "Sha384" -> 48
      [] variant = "Sha512" -> 64
      [] variant = "Sha512_256" -> 32

\* The variant the last call hashed with.
LastAlg == IF last.op = "finish" THEN last.input.alg ELSE env.alg

\* C7: every digest returned by hash, hash_vec, hash_str, hash_file or finish
\* has the byte length its variant fixes (20, 32, 48, 64, 32), as as_bytes()
\* and as to_vec().
C7_DigestLength ==
    HasDigest =>
        /\ Len(as_bytes(last.outcome.val)) = DigestLen(LastAlg)
        /\ to_vec(last.outcome.val).len = DigestLen(LastAlg)
        /\ Len(Vec_as_ref(to_vec(last.outcome.val))) = DigestLen(LastAlg)

\* finish has returned a digest for a Sha384 context that was never updated.
C7_Witness ==
    /\ last.op = "finish"
    /\ last.calls.updates = 0
    /\ last.input.alg = "Sha384"
    /\ last.input.bytes = <<>>
    /\ HasDigest

\* C9: finish consumes the context: no context is finished twice, no call is
\* applied to a context after its finish, and a binding is moved out of
\* exactly when its one digest was produced.
C9_ContextLifecycle ==
    \A i \in CtxIds :
        /\ fed[i].finishes <= 1
        /\ fed[i].late = 0
        /\ (ctxs[i].st = "moved") <=> (fed[i].finishes = 1)
        /\ ctxs[i].st = "none" => fed[i] = NotFed

\* A context that was updated more than once has been finished while the
\* other one is still live.
C9_Witness ==
    /\ last.op = "finish"
    /\ last.id = "c1"
    /\ last.calls.updates = 2
    /\ ctxs["c1"].st = "moved"
    /\ ctxs["c2"].st = "live"

OneShotOps == {"hash", "hash_vec", "hash_str", "hash_file"}

\* The accumulated input of context i.
Accumulated(i) == ctxs[i].ctx.inner.pending

\* C10: a clone starts with the original's accumulated input; a call on one
\* context, a new_context call and a one-shot call leave every other
\* context as it was; a context holds exactly the bytes fed to it (with those
\* inherited at clone time) and finishes to their digest.
C10_ContextIndependence ==
    /\ [](last.op = "clone" =>
            /\ ctxs[last.id].st = "live"
            /\ ctxs[last.input].st = "live"
            /\ Accumulated(last.id) = Accumulated(last.input)
            /\ ctxs[last.id].ctx.inner.algorithm = ctxs[last.input].ctx.inner.algorithm)
    /\ [](\A i \in CtxIds : ctxs[i].st = "live" => Accumulated(i) = fed[i].bytes)
    /\ [](last.op = "finish" =>
            r_Digest_as_ref(last.outcome.val.inner)
                = DigestValue(ReferencePrimitive(last.input.alg), last.input.bytes))
    /\ [][\A i \in CtxIds :
            (\/ last'.op \in OneShotOps
             \/ last'.op \in {"new_context", "update", "clone", "finish"} /\ last'.id # i)
            => ctxs'[i] = ctxs[i]]_vars

\* Context c2, which holds what c1 holds and one more chunk, has been
\* finished while c1 is live with its own input.
C10_Witness ==
    /\ last.op = "finish"
    /\ last.id = "c2"
    /\ ctxs["c1"].st = "live"
    /\ fed["c1"].bytes = <<65>>
    /\ last.input.bytes = <<65, LF>>

\* C3: for every variant and content, hash_vec of a vector holding the
\* content and, when the content is UTF-8, hash_str of the string it encodes
\* return the digest hash returns for the content.
C3_InputFormsAgree ==
    /\ last.op = "hash_vec" =>
          /\ Vec_as_ref(last.input) = env.bytes
          /\ last.outcome = Return(hash(env.alg, env.bytes))
    /\ last.op = "hash_str" =>
          /\ from_utf8(env.bytes) = Ok(last.input)
          /\ last.outcome = Return(hash(env.alg, env.bytes))

\* hash_str has returned for the string "A" U+00E9, whose encoding has three
\* bytes.
C3_Witness ==
    /\ last.op = "hash_str"
    /\ last.input = <<65, 233>>
    /\ env.bytes = <<65, 195, 169>>
    /\ ~last.outcome.panic

\* The position of the first line feed of c, 0 when it has none.
FirstLF(c) ==
    IF \E k \in 1..Len(c) : c[k] = LF
    THEN CHOOSE k \in 1..Len(c) : c[k] = LF /\ \A j \in 1..(k - 1) : c[j] # LF
    ELSE 0

\* c cut after each line feed, the line feeds left out and all else kept.
RECURSIVE SplitAtLF(_)
SplitAtLF(c) ==
    IF c = <<>> THEN <<>>
    ELSE IF FirstLF(c) = 0 THEN <<c>>
    ELSE <<SubSeq(c, 1, FirstLF(c) - 1)>> \o SplitAtLF(SubSeq(c, FirstLF(c) + 1, Len(c)))

\* c without its line feeds.
RemoveLF(c) == SelectSeq(c, LAMBDA b : b # LF)

\* Byte k of c belongs to a line terminator: it is a line feed, or a carriage
\* return with a line feed right after it.
InTerminator(c, k) == c[k] = LF \/ (c[k] = CR /\ k < Len(c) /\ c[k + 1] = LF)

\* The bytes of c from position k on that belong to no line terminator.
RECURSIVE RemoveTerminatorsFrom(_, _)
RemoveTerminatorsFrom(c, k) ==
    IF k > Len(c) THEN <<>>
    ELSE (IF InTerminator(c, k) THEN <<>> ELSE <<c[k]>>) \o RemoveTerminatorsFrom(c, k + 1)

RemoveTerminators(c) == RemoveTerminatorsFrom(c, 1)

\* c cut after each line feed, each piece without its terminator.
RECURSIVE SplitLines(_)
SplitLines(c) ==
    IF c = <<>> THEN <<>>
    ELSE IF FirstLF(c) = 0 THEN <<c>>
    ELSE <<RemoveTerminators(SubSeq(c, 1, FirstLF(c)))>>
         \o SplitLines(SubSeq(c, FirstLF(c) + 1, Len(c)))

\* C4 as stated: when hash_file returns, update was called once per line, in
\* file order, with the line's bytes less the line feed alone, and the digest
\* is the hash of the file's bytes with the line feeds removed and every
\* other byte kept.
C4_OnlyLineFeedsDropped ==
    (last.op = "hash_file" /\ ~last.outcome.panic) =>
        /\ last.calls = SplitAtLF(env.file.content)
        /\ last.outcome = Return(hash(env.alg, RemoveLF(env.file.content)))

\* C4 as amended: when hash_file returns, update was called once per line, in
\* file order, with the line's bytes less its terminator, a line feed together
\* with a carriage return right before it, and the digest is the hash of the
\* file's bytes with these terminators removed and every other byte kept.
C4_LineTerminatorsDropped ==
    (last.op = "hash_file" /\ ~last.outcome.panic) =>
        /\ env.file.kind = "file"
        /\ last.calls = SplitLines(env.file.content)
        /\ last.outcome = Return(hash(env.alg, RemoveTerminators(env.file.content)))

\* hash_file has returned for a file holding "A\r\n".
C4_Witness ==
    /\ last.op = "hash_file"
    /\ ~last.outcome.panic
    /\ env.file.content = <<65, CR, LF>>
    /\ last.calls = <<(<<65>>)>>

OpenFailure == "Failed to open file with path: "

HexDigits == {"0", "1", "2", "3", "4", "5", "6", "7", "8", "9", "a", "b", "c", "d", "e", "f"}

\* The value of a hexadecimal digit.
HexValue(c) == CHOOSE v \in 0..15 : HEX_CHARS_LOWER[v + 1] = c

\* The bytes a hexadecimal string of even length stands for.
HexDecode(h) == [k \in 1..(Len(h) \div 2) |-> HexValue(h[2 * k - 1]) * 16 + HexValue(h[2 * k])]

\* C8: to_hex() has two characters per byte of as_bytes(), all of them digits
\* or lowercase a-f, and decodes to as_bytes(); to_vec() holds as_bytes(); a
\* view taken before is what the same call returns now.
C8_HexRoundTrip ==
    HasDigest =>
        LET d == last.outcome.val IN
        /\ views.to_hex.some =>
              /\ Len(views.to_hex.val) = 2 * Len(as_bytes(d))
              /\ \A k \in 1..Len(views.to_hex.val) : views.to_hex.val[k] \in HexDigits
              /\ HexDecode(views.to_hex.val) = as_bytes(d)
              /\ views.to_hex.val = to_hex(d)
        /\ views.to_vec.some =>
              /\ Vec_as_ref(views.to_vec.val) = as_bytes(d)
              /\ views.to_vec.val.buf = as_bytes(d)
              /\ views.to_vec.val = to_vec(d)
        /\ views.as_bytes.some => views.as_bytes.val = as_bytes(d)
        /\ (views.as_bytes.some /\ views.to_vec.some) =>
              Vec_as_ref(views.to_vec.val) = views.as_bytes.val

\* All three views of a Sha512 digest of a file have been taken.
C8_Witness ==
    /\ last.op = "hash_file"
    /\ env.alg = "Sha512"
    /\ env.bytes = <<195, 169, LF>>
    /\ views.as_bytes.some
    /\ views.to_vec.some
    /\ views.to_hex.some

====
